---- MODULE Spec2Model ----
(***************************************************************************)
(* Model of the NYC-transport raw-to-dataframe converters:                 *)
(*   - the two zone resolvers, assign_taxi_zones                           *)
(*     (convert_bike_csv_to_parquet.py) and spatial_join                   *)
(*     (convert_taxi_csv_to_parquet.py);                                   *)
(*   - the taxi main(): era globs, per-era normalisation, union, astype.   *)
(* A cell value is a sequence: << >> is NaN/null, <<n>> is the number n.   *)
(***************************************************************************)
EXTENDS Integers, Sequences, FiniteSets, TLC

\* ------------------------------------------------------------------ values
NaN == << >>
Num(n) == <<n>>

\* The sentinel written for unresolved identifiers.
Sentinel == -999

\* ------------------------------------------------------------------ bounds
\* Largest number of records in one batch (one dataframe partition).
MaxBatch == 2

\* --------------------------------------------------- zone resolvers: inputs
\* Coordinates a record can carry: missing, zero, or a grid position.
Coords == {NaN, Num(0), Num(1), Num(2)}

\* Zone ids a record can carry on input.
LocIds == {NaN, Num(4), Num(7)}

\* One row of the dataframe handed to a resolver: df[[lon_var, lat_var, locid_var]].
Records == [lon : Coords, lat : Coords, locid : LocIds]

Batches == UNION {[1..n -> Records] : n \in 0..MaxBatch}

\* ../shapefiles/taxi_zones_latlon.shp after the drop of the unused columns:
\* rows (LocationID, geometry) in file order.  The geometry is a polygon over
\* grid points: its interior and its boundary.  Zones 4 and 7 share the
\* boundary point (2,2); no zone reaches a zero coordinate (New York is far
\* from longitude 0 and from latitude 0).
shape_df ==
    << [LocationID |-> 4, interior |-> {<<1, 2>>}, boundary |-> {<<2, 2>>}],
       [LocationID |-> 7, interior |-> {<<2, 1>>}, boundary |-> {<<2, 2>>}] >>

\* What geopandas.sjoin does on a call: it completes, or raises ValueError
\* (the error both resolvers catch).
EngineOutcomes == {"ok", "ValueError"}

Resolvers == {"assign_taxi_zones", "spatial_join"}

\* ------------------------------------------------------- taxi main: inputs
\* Largest number of trip files in the raw data directory.
MaxFiles == 3

\* Trip files that may lie in config['taxi_raw_data_path'], each named
\* <color>_tripdata_<year>-<month>.csv.
CandidateFiles ==
    { [color |-> "green",  year |-> 2013, month |-> 8],
      [color |-> "green",  year |-> 2015, month |-> 3],
      [color |-> "green",  year |-> 2015, month |-> 10],
      [color |-> "green",  year |-> 2016, month |-> 9],
      [color |-> "green",  year |-> 2017, month |-> 1],
      [color |-> "yellow", year |-> 2009, month |-> 1],
      [color |-> "yellow", year |-> 2012, month |-> 5],
      [color |-> "yellow", year |-> 2015, month |-> 7],
      [color |-> "yellow", year |-> 2016, month |-> 11],
      [color |-> "yellow", year |-> 2017, month |-> 2] }

Directories == {d \in SUBSET CandidateFiles : Cardinality(d) <= MaxFiles}

AllMonths == 1..12

\* ------------------------------------------------- taxi main: declarations
green_schema_pre_2015 ==
    << "vendor_id", "pickup_datetime", "dropoff_datetime",
       "store_and_fwd_flag", "rate_code_id", "pickup_longitude",
       "pickup_latitude", "dropoff_longitude", "dropoff_latitude",
       "passenger_count", "trip_distance", "fare_amount", "extra", "mta_tax",
       "tip_amount", "tolls_amount", "ehail_fee", "total_amount",
       "payment_type", "trip_type", "junk1", "junk2" >>

green_schema_2015_h1 ==
    << "vendor_id", "pickup_datetime", "dropoff_datetime",
       "store_and_fwd_flag", "rate_code_id", "pickup_longitude",
       "pickup_latitude", "dropoff_longitude", "dropoff_latitude",
       "passenger_count", "trip_distance", "fare_amount", "extra", "mta_tax",
       "tip_amount", "tolls_amount", "ehail_fee", "improvement_surcharge",
       "total_amount", "payment_type", "trip_type", "junk1", "junk2" >>

green_schema_2015_h2_2016_h1 ==
    << "vendor_id", "pickup_datetime", "dropoff_datetime",
       "store_and_fwd_flag", "rate_code_id", "pickup_longitude",
       "pickup_latitude", "dropoff_longitude", "dropoff_latitude",
       "passenger_count", "trip_distance", "fare_amount", "extra", "mta_tax",
       "tip_amount", "tolls_amount", "ehail_fee", "improvement_surcharge",
       "total_amount", "payment_type", "trip_type" >>

green_schema_2016_h2 ==
    << "vendor_id", "pickup_datetime", "dropoff_datetime",
       "store_and_fwd_flag", "rate_code_id", "pickup_location_id",
       "dropoff_location_id", "passenger_count", "trip_distance",
       "fare_amount", "extra", "mta_tax", "tip_amount", "tolls_amount",
       "ehail_fee", "improvement_surcharge", "total_amount", "payment_type",
       "trip_type", "junk1", "junk2" >>

yellow_schema_pre_2015 ==
    << "vendor_id", "pickup_datetime", "dropoff_datetime", "passenger_count",
       "trip_distance", "pickup_longitude", "pickup_latitude", "rate_code_id",
       "store_and_fwd_flag", "dropoff_longitude", "dropoff_latitude",
       "payment_type", "fare_amount", "extra", "mta_tax", "tip_amount",
       "tolls_amount", "total_amount" >>

yellow_schema_2015_2016_h1 ==
    << "vendor_id", "pickup_datetime", "dropoff_datetime", "passenger_count",
       "trip_distance", "pickup_longitude", "pickup_latitude", "rate_code_id",
       "store_and_fwd_flag", "dropoff_longitude", "dropoff_latitude",
       "payment_type", "fare_amount", "extra", "mta_tax", "tip_amount",
       "tolls_amount", "improvement_surcharge", "total_amount" >>

yellow_schema_2016_h2 ==
    << "vendor_id", "pickup_datetime", "dropoff_datetime", "passenger_count",
       "trip_distance", "rate_code_id", "store_and_fwd_flag",
       "pickup_location_id", "dropoff_location_id", "payment_type",
       "fare_amount", "extra", "mta_tax", "tip_amount", "tolls_amount",
       "improvement_surcharge", "total_amount", "junk1", "junk2" >>

\* A glob pattern over the trip-file names: the colour prefix, the years and
\* the months its wildcards and character classes admit.
Pattern(color, years, months) ==
    [color |-> color, years |-> years, months |-> months]

\* The patterns of each era, in the order their glob() lists are added up.
green_glob_pre_2015 == << Pattern("green", {2013, 2014}, AllMonths) >>

green_glob_2015_h1 == << Pattern("green", {2015}, 1..6) >>

green_glob_2015_h2_2016_h1 ==
    << Pattern("green", {2015}, 7..9), Pattern("green", {2015}, 10..12),
       Pattern("green", {2016}, 1..6) >>

green_glob_2016_h2 ==
    << Pattern("green", {2016}, 7..9), Pattern("green", {2016}, 10..12) >>

yellow_glob_pre_2015 == << Pattern("yellow", 2010..2014, AllMonths) >>

yellow_glob_2015_2016_h1 ==
    << Pattern("yellow", {2015}, AllMonths), Pattern("yellow", {2016}, 1..6) >>

yellow_glob_2016_h2 ==
    << Pattern("yellow", {2016}, 7..9), Pattern("yellow", {2016}, 10..12) >>

\* The dtypes main declares.
dtype_list ==
    [c \in {"dropoff_latitude", "dropoff_longitude", "ehail_fee", "extra",
            "fare_amount", "improvement_surcharge", "mta_tax",
            "pickup_latitude", "pickup_longitude", "tip_amount",
            "tolls_amount", "total_amount", "trip_distance",
            "dropoff_location_id", "passenger_count", "pickup_location_id",
            "rate_code_id",
            "junk1", "junk2", "payment_type", "store_and_fwd_flag",
            "trip_type", "vendor_id"} |->
        IF c \in {"dropoff_location_id", "passenger_count",
                  "pickup_location_id", "rate_code_id"} THEN "int64"
        ELSE IF c \in {"junk1", "junk2", "payment_type",
                       "store_and_fwd_flag", "trip_type", "vendor_id"}
             THEN "object"
             ELSE "float64"]

Junk == << "junk1", "junk2" >>

\* One default column of an era: frame[col] = frame[src].copy(), then
\* frame[col] = value.
Default(col, src, value) == [col |-> col, src |-> src, value |-> value]

LocationDefaults ==
    << Default("dropoff_location_id", "rate_code_id", Num(Sentinel)),
       Default("pickup_location_id", "rate_code_id", Num(Sentinel)) >>

CoordinateDefaults ==
    << Default("dropoff_latitude", "total_amount", NaN),
       Default("dropoff_longitude", "total_amount", NaN),
       Default("pickup_latitude", "total_amount", NaN),
       Default("pickup_longitude", "total_amount", NaN) >>

\* The era blocks of main, in program order: the frame's name, its dataset,
\* its csv schema and globs, the columns it adds and whether it drops the
\* junk columns.
Eras ==
    << [name |-> "green1", dataset |-> "green",
        schema |-> green_schema_pre_2015, globs |-> green_glob_pre_2015,
        defaults |-> LocationDefaults \o
            << Default("improvement_surcharge", "total_amount", NaN) >>,
        drop_junk |-> TRUE],
       [name |-> "green2", dataset |-> "green",
        schema |-> green_schema_2015_h1, globs |-> green_glob_2015_h1,
        defaults |-> LocationDefaults,
        drop_junk |-> TRUE],
       [name |-> "green3", dataset |-> "green",
        schema |-> green_schema_2015_h2_2016_h1,
        globs |-> green_glob_2015_h2_2016_h1,
        defaults |-> LocationDefaults,
        drop_junk |-> FALSE],
       [name |-> "green4", dataset |-> "green",
        schema |-> green_schema_2016_h2, globs |-> green_glob_2016_h2,
        defaults |-> CoordinateDefaults,
        drop_junk |-> TRUE],
       [name |-> "yellow1", dataset |-> "yellow",
        schema |-> yellow_schema_pre_2015, globs |-> yellow_glob_pre_2015,
        defaults |-> LocationDefaults \o
            << Default("ehail_fee", "total_amount", NaN),
               Default("improvement_surcharge", "total_amount", NaN),
               Default("trip_type", "rate_code_id", Num(Sentinel)) >>,
        drop_junk |-> FALSE],
       [name |-> "yellow2", dataset |-> "yellow",
        schema |-> yellow_schema_2015_2016_h1,
        globs |-> yellow_glob_2015_2016_h1,
        defaults |-> LocationDefaults \o
            << Default("ehail_fee", "total_amount", NaN),
               Default("trip_type", "rate_code_id", Num(Sentinel)) >>,
        drop_junk |-> FALSE],
       [name |-> "yellow3", dataset |-> "yellow",
        schema |-> yellow_schema_2016_h2, globs |-> yellow_glob_2016_h2,
        defaults |-> CoordinateDefaults \o
            << Default("ehail_fee", "total_amount", NaN),
               Default("trip_type", "rate_code_id", Num(Sentinel)) >>,
        drop_junk |-> TRUE] >>

Datasets == {"green", "yellow"}

\* The eras of a dataset, as indexes into Eras, in the order main appends them.
ErasOf(ds) ==
    IF ds = "green" THEN << 1, 2, 3, 4 >> ELSE << 5, 6, 7 >>

\* The steps of main in program order.
Program ==
    << "globs", "green1", "green2", "green3", "green4",
       "green_append", "green_astype",
       "yellow1", "yellow2", "yellow3",
       "yellow_append", "yellow_astype", "done" >>

VARIABLES
    \* one call of a zone resolver
    fn,          \* which resolver the partition is mapped through
    df,          \* the batch: a sequence of Records, index 1..Len(df)
    engine,      \* what sjoin does if it is called on this batch
    pc,          \* "call" before the resolver runs, "done" after
    result,      \* what the resolver did
    \* one run of the taxi main
    dir,         \* the trip files in config['taxi_raw_data_path']
    mpc,         \* the step of Program main is about to run
    globs,       \* per era, the file list its globs gave
    frames,      \* per era, its normalised dataframe
    tables,      \* per dataset, the table appended (then cast) so far
    raised       \* the exception main ended with, "none" if none

zvars == <<fn, df, engine, pc, result>>

mvars == <<dir, mpc, globs, frames, tables, raised>>

vars == <<zvars, mvars>>

\* ------------------------------------------------- zone resolvers: helpers
\* localdf[v].fillna(value=0.)
fillna(v, value) == IF v = NaN THEN value ELSE v

\* np.nan_to_num(x): NaN becomes 0.
nan_to_num(v) == IF v = NaN THEN Num(0) ELSE v

\* Mutant of Point: the coordinates zipped as (lat, lon).
PointSwapped(lon, lat) == <<lat[1], lon[1]>>

\* shapely Point(xy) for xy in zip(lons, lats).
Point(lon, lat) == <<lon[1], lat[1]>>

\* op='intersects': the point is in the polygon's interior or on its boundary.
intersects(pt, poly) == pt \in (poly.interior \cup poly.boundary)

\* LocationIDs of the zones a point intersects, in shapefile order.
RECURSIVE MatchesFrom(_, _)
MatchesFrom(pt, k) ==
    IF k > Len(shape_df) THEN << >>
    ELSE (IF intersects(pt, shape_df[k])
          THEN <<Num(shape_df[k].LocationID)>> ELSE << >>)
         \o MatchesFrom(pt, k + 1)

Matches(pt) == MatchesFrom(pt, 1)

\* The rows sjoin yields for the point of index i: one per intersecting zone.
JoinedRows(i, pt) ==
    [k \in 1..Len(Matches(pt)) |-> [idx |-> i, LocationID |-> Matches(pt)[k]]]

\* geopandas.sjoin(points, shape_df, op='intersects'), how='inner' (default):
\* only the points that intersect a zone, duplicated per zone.
RECURSIVE sjoin_inner(_, _)
sjoin_inner(points, i) ==
    IF i > Len(points) THEN << >>
    ELSE JoinedRows(i, points[i]) \o sjoin_inner(points, i + 1)

\* geopandas.sjoin(..., how='left', op='intersects'): every point is kept, one
\* row per intersecting zone, LocationID NaN when there is none.
RECURSIVE sjoin_left(_, _)
sjoin_left(points, i) ==
    IF i > Len(points) THEN << >>
    ELSE (IF Matches(points[i]) = << >>
          THEN << [idx |-> i, LocationID |-> NaN] >>
          ELSE JoinedRows(i, points[i]))
         \o sjoin_left(points, i + 1)

\* local_gdf[~local_gdf.index.duplicated(keep='first')]
drop_duplicated(rows) ==
    LET keep(k) == \A j \in 1..(k - 1) : rows[j].idx # rows[k].idx
        RECURSIVE from(_)
        from(k) == IF k > Len(rows) THEN << >>
                   ELSE (IF keep(k) THEN <<rows[k]>> ELSE << >>) \o from(k + 1)
    IN from(1)

\* df[locid_var]: the input zone-id column, one entry per record.
locid_column(d) == [i \in 1..Len(d) |-> [idx |-> i, val |-> d[i].locid]]

\* ------------------------------------------------------- assign_taxi_zones
\* localdf['replace_locid'] for one record.
replace_locid(r) ==
    /\ r.locid = NaN
    /\ fillna(r.lon, Num(0)) # Num(0)
    /\ fillna(r.lat, Num(0)) # Num(0)

\* LocationID.values[~replace_locid] = locid_var[~replace_locid].values
restore_locid(d, rows) ==
    [k \in 1..Len(rows) |->
        [idx |-> rows[k].idx,
         val |-> IF ~replace_locid(d[rows[k].idx])
                 THEN d[rows[k].idx].locid
                 ELSE rows[k].LocationID]]

assign_taxi_zones(d, eng) ==
    LET points == [i \in 1..Len(d) |->
                      Point(fillna(d[i].lon, Num(0)), fillna(d[i].lat, Num(0)))]
    IN  IF \E i \in 1..Len(d) : replace_locid(d[i])
        THEN IF eng = "ok"
             THEN [status |-> "returned", exc |-> "none", dtype |-> "float64",
                   shape_loaded |-> TRUE, sjoin_called |-> TRUE,
                   col |-> restore_locid(d, drop_duplicated(sjoin_left(points, 1)))]
             \* except ValueError: print(ve); print(ve.stacktrace()) -- a
             \* ValueError has no stacktrace attribute, so the handler itself
             \* raises AttributeError before its return.
             ELSE [status |-> "raised", exc |-> "AttributeError", dtype |-> "none",
                   shape_loaded |-> TRUE, sjoin_called |-> TRUE, col |-> << >>]
        ELSE [status |-> "returned", exc |-> "none", dtype |-> "input",
              shape_loaded |-> FALSE, sjoin_called |-> FALSE,
              col |-> locid_column(d)]

\* ------------------------------------------------------------ spatial_join
\* np.any((lats != 0.) | (lons != 0.))
any_coordinate(d) ==
    \E i \in 1..Len(d) :
        nan_to_num(d[i].lat) # Num(0) \/ nan_to_num(d[i].lon) # Num(0)

\* dflocal.merge(joined, how='left', left_index=True, right_index=True):
\* per record the joined rows of its index, or one row with LocationID NaN.
RECURSIVE merge_left(_, _, _)
merge_left(d, joined, i) ==
    IF i > Len(d) THEN << >>
    ELSE LET mine == SelectSeq(joined, LAMBDA row : row.idx = i)
         IN  (IF mine = << >>
              THEN << [idx |-> i, LocationID |-> NaN] >>
              ELSE mine)
             \o merge_left(d, joined, i + 1)

\* Mutant of fillna_sentinel: the unmatched rows filled with 0.
FillnaZero(rows) ==
    [k \in 1..Len(rows) |->
        [idx |-> rows[k].idx, val |-> fillna(rows[k].LocationID, Num(0))]]

\* (dflocal['LocationID'].fillna(-999.)).astype(np.int64)
fillna_sentinel(rows) ==
    [k \in 1..Len(rows) |->
        [idx |-> rows[k].idx, val |-> fillna(rows[k].LocationID, Num(Sentinel))]]

spatial_join(d, eng) ==
    LET points == [i \in 1..Len(d) |->
                      Point(nan_to_num(d[i].lon), nan_to_num(d[i].lat))]
    IN  \* the shapefile is read before anything else (line 38)
        IF any_coordinate(d)
        THEN IF eng = "ok"
             THEN [status |-> "returned", exc |-> "none", dtype |-> "int64",
                   shape_loaded |-> TRUE, sjoin_called |-> TRUE,
                   col |-> fillna_sentinel(
                               merge_left(d, sjoin_inner(points, 1), 1))]
             \* except ValueError: return retval
             ELSE [status |-> "returned", exc |-> "none", dtype |-> "input",
                   shape_loaded |-> TRUE, sjoin_called |-> TRUE,
                   col |-> locid_column(d)]
        ELSE [status |-> "returned", exc |-> "none", dtype |-> "input",
              shape_loaded |-> TRUE, sjoin_called |-> FALSE,
              col |-> locid_column(d)]

\* --------------------------------------------------- taxi main: dataframes
\* Python's sorted() over the column names that occur in main.
ColumnOrder ==
    << "dropoff_datetime", "dropoff_latitude", "dropoff_location_id",
       "dropoff_longitude", "ehail_fee", "extra", "fare_amount",
       "improvement_surcharge", "junk1", "junk2", "mta_tax",
       "passenger_count", "payment_type", "pickup_datetime",
       "pickup_latitude", "pickup_location_id", "pickup_longitude",
       "rate_code_id", "store_and_fwd_flag", "tip_amount", "tolls_amount",
       "total_amount", "trip_distance", "trip_type", "vendor_id" >>

ToSet(s) == {s[k] : k \in 1..Len(s)}

\* sorted(frame.columns)
sorted_columns(columns) ==
    SelectSeq(ColumnOrder, LAMBDA c : c \in ToSet(columns))

\* glob(x): the files of the directory that match the pattern, sorted by name
\* (for one colour: by year, then month).
RECURSIVE sorted_files(_)
sorted_files(S) ==
    IF S = {} THEN << >>
    ELSE LET first == CHOOSE f \in S : \A g \in S :
                          f.year * 100 + f.month <= g.year * 100 + g.month
         IN  <<first>> \o sorted_files(S \ {first})

matches(f, pat) ==
    f.color = pat.color /\ f.year \in pat.years /\ f.month \in pat.months

glob(d, pat) == sorted_files({f \in d : matches(f, pat)})

\* glob(p1) + glob(p2) + ...
RECURSIVE glob_list(_, _)
glob_list(d, pats) ==
    IF pats = << >> THEN << >>
    ELSE glob(d, Head(pats)) \o glob_list(d, Tail(pats))

\* The cell the csv reader yields for a column of a file's data row: a
\* number that tells the files apart (no raw cell is -999 or NA here).
raw_cell(f, c) == Num(f.month)

\* dd.read_csv(files, header=0, na_values=["NA"], parse_dates=[1, 2],
\* dtype=dtype_list, names=schema): one data row per file; an empty file list
\* is taken to give a frame with no rows.
read_csv(files, names, era) ==
    [columns |-> names,
     dtypes  |-> [c \in ToSet(names) |->
                     IF c \in {names[2], names[3]} THEN "datetime64"
                     ELSE dtype_list[c]],
     rows    |-> [k \in 1..Len(files) |->
                     [era |-> era, file |-> files[k],
                      cells |-> [c \in ToSet(names) |-> raw_cell(files[k], c)]]]]

\* frame[col] = series: an existing column is replaced, a new one is added
\* at the end; values holds the series' cells, one per row.
setitem(frame, col, dtype, values) ==
    [columns |-> IF col \in ToSet(frame.columns) THEN frame.columns
                 ELSE Append(frame.columns, col),
     dtypes  |-> [c \in ToSet(frame.columns) \cup {col} |->
                     IF c = col THEN dtype ELSE frame.dtypes[c]],
     rows    |-> [k \in 1..Len(frame.rows) |->
                     [frame.rows[k] EXCEPT !.cells =
                         [c \in ToSet(frame.columns) \cup {col} |->
                             IF c = col THEN values[k]
                             ELSE frame.rows[k].cells[c]]]]]

\* frame[col] = frame[src].copy()
setitem_copy(frame, col, src) ==
    setitem(frame, col, frame.dtypes[src],
            [k \in 1..Len(frame.rows) |-> frame.rows[k].cells[src]])

\* frame[col] = -999 (an int64 column) or frame[col] = np.nan (float64).
setitem_scalar(frame, col, value) ==
    setitem(frame, col, IF value = NaN THEN "float64" ELSE "int64",
            [k \in 1..Len(frame.rows) |-> value])

\* Mutant of assign_default: the second assignment is missing, the column
\* keeps the copy of src.
AssignCopyOnly(frame, col, src, value) == setitem_copy(frame, col, src)

\* frame[col] = frame[src].copy(); frame[col] = value
assign_default(frame, col, src, value) ==
    setitem_scalar(setitem_copy(frame, col, src), col, value)

RECURSIVE assign_defaults(_, _)
assign_defaults(frame, defaults) ==
    IF defaults = << >> THEN frame
    ELSE assign_defaults(
             assign_default(frame, Head(defaults).col, Head(defaults).src,
                            Head(defaults).value),
             Tail(defaults))

\* frame[labels]: the columns in the order of labels.
getitem(frame, labels) ==
    [columns |-> labels,
     dtypes  |-> [c \in ToSet(labels) |-> frame.dtypes[c]],
     rows    |-> [k \in 1..Len(frame.rows) |->
                     [frame.rows[k] EXCEPT !.cells =
                         [c \in ToSet(labels) |-> frame.rows[k].cells[c]]]]]

\* Mutant of drop: nothing is dropped.
DropNothing(frame, labels) == frame

\* frame.drop(labels, axis=1)
drop(frame, labels) ==
    getitem(frame, SelectSeq(frame.columns, LAMBDA c : c \notin ToSet(labels)))

\* The dtype of a column of a concatenation.
common_dtype(a, b) ==
    IF a = b THEN a
    ELSE IF {a, b} = {"int64", "float64"} THEN "float64"
    ELSE "object"

\* a.append(b), both with the same columns in the same order.
append(a, b) ==
    [columns |-> a.columns,
     dtypes  |-> [c \in ToSet(a.columns) |->
                     common_dtype(a.dtypes[c], b.dtypes[c])],
     rows    |-> a.rows \o b.rows]

\* series.astype(dtype) on one cell: int64 has no NaN (pandas raises
\* ValueError), float64 and object hold every cell of the model.
can_cast(v, dtype) == dtype = "int64" => v # NaN

\* The cell after the cast; the loop stops at a cell that cannot be cast
\* (astype_raises), so the ELSE branch is never the value of a table cell.
cast(v, dtype) == IF can_cast(v, dtype) THEN v ELSE NaN

\* frame[field] = frame[field].astype(dtype)
astype(frame, field, dtype) ==
    setitem(frame, field, dtype,
            [k \in 1..Len(frame.rows) |->
                cast(frame.rows[k].cells[field], dtype)])

RECURSIVE astype_fields(_, _)
astype_fields(frame, fields) ==
    IF fields = << >> THEN frame
    ELSE astype_fields(
             IF Head(fields) \in DOMAIN dtype_list
             THEN astype(frame, Head(fields), dtype_list[Head(fields)])
             ELSE frame,
             Tail(fields))

\* Mutant of astype_all: the loop body never runs.
AstypeSkipped(frame) == frame

\* for field in list(frame.columns):
\*     if field in dtype_list: frame[field] = frame[field].astype(...)
astype_all(frame) == astype_fields(frame, frame.columns)

\* Some astype of the loop raises.
astype_raises(frame) ==
    \E c \in ToSet(frame.columns) \cap DOMAIN dtype_list :
        \E k \in 1..Len(frame.rows) :
            ~can_cast(frame.rows[k].cells[c], dtype_list[c])

\* One era block of main: read_csv, the default columns, the junk drop.
normalize(e, files) ==
    LET raw   == read_csv(files, Eras[e].schema, Eras[e].name)
        added == assign_defaults(raw, Eras[e].defaults)
    IN  IF Eras[e].drop_junk THEN drop(added, Junk) ELSE added

\* first[sorted(first.columns)].append(second[sorted(first.columns)])... :
\* the batches of order, each projected on the sorted columns of the first.
RECURSIVE append_all(_, _, _, _)
append_all(acc, fs, order, labels) ==
    IF order = << >> THEN acc
    ELSE append_all(append(acc, getitem(fs[Head(order)], labels)),
                    fs, Tail(order), labels)

union(fs, order) ==
    LET labels == sorted_columns(fs[Head(order)].columns)
    IN  append_all(getitem(fs[Head(order)], labels), fs, Tail(order), labels)

\* frame[labels] raises KeyError when a label is not a column of the frame.
union_ok(fs, order) ==
    \A k \in 1..Len(order) :
        ToSet(fs[Head(order)].columns) \subseteq ToSet(fs[order[k]].columns)

\* ---------------------------------------------------- taxi main: machine
NoFrame == [columns |-> << >>, dtypes |-> << >>, rows |-> << >>]

NoGlobs == [e \in 1..Len(Eras) |-> << >>]

NoFrames == [e \in 1..Len(Eras) |-> NoFrame]

NoTables == [ds \in Datasets |-> NoFrame]

\* Lines 72-98: every era's file list is globbed from the directory.
Globs ==
    /\ Program[mpc] = "globs"
    /\ globs' = [e \in 1..Len(Eras) |-> glob_list(dir, Eras[e].globs)]
    /\ mpc' = mpc + 1
    /\ UNCHANGED <<dir, frames, tables, raised>>
    /\ UNCHANGED zvars

\* An era block (green1 .. yellow3): the files of its glob are read and
\* normalised.
NormalizeEra(e) ==
    /\ Program[mpc] = Eras[e].name
    /\ frames' = [frames EXCEPT ![e] = normalize(e, globs[e])]
    /\ mpc' = mpc + 1
    /\ UNCHANGED <<dir, globs, tables, raised>>
    /\ UNCHANGED zvars

\* green = green1[sorted(green1.columns)].append(...) and its yellow twin.
AppendEras(ds) ==
    /\ Program[mpc] = ds \o "_append"
    /\ IF union_ok(frames, ErasOf(ds))
       THEN /\ tables' = [tables EXCEPT ![ds] = union(frames, ErasOf(ds))]
            /\ mpc' = mpc + 1
            /\ UNCHANGED raised
       ELSE /\ raised' = "KeyError"
            /\ mpc' = Len(Program)
            /\ UNCHANGED tables
    /\ UNCHANGED <<dir, globs, frames>>
    /\ UNCHANGED zvars

\* The astype loop over the table's columns, after which the table is
\* written out.
Astype(ds) ==
    /\ Program[mpc] = ds \o "_astype"
    /\ IF ~astype_raises(tables[ds])
       THEN /\ tables' = [tables EXCEPT ![ds] = astype_all(tables[ds])]
            /\ mpc' = mpc + 1
            /\ UNCHANGED raised
       ELSE /\ raised' = "ValueError"
            /\ mpc' = Len(Program)
            /\ UNCHANGED tables
    /\ UNCHANGED <<dir, globs, frames>>
    /\ UNCHANGED zvars

MNext ==
    \/ Globs
    \/ \E e \in 1..Len(Eras) : NormalizeEra(e)
    \/ \E ds \in Datasets : AppendEras(ds)
    \/ \E ds \in Datasets : Astype(ds)

\* -------------------------------------------------- zone resolvers: machine
NoResult == [status |-> "none", exc |-> "none", dtype |-> "none",
             shape_loaded |-> FALSE, sjoin_called |-> FALSE, col |-> << >>]

\* df.map_partitions(assign_taxi_zones, lon, lat, locid) on one partition.
AssignTaxiZones ==
    /\ pc = "call"
    /\ fn = "assign_taxi_zones"
    /\ result' = assign_taxi_zones(df, engine)
    /\ pc' = "done"
    /\ UNCHANGED <<fn, df, engine>>
    /\ UNCHANGED mvars

\* df.map_partitions(spatial_join, lon, lat, locid) on one partition.
SpatialJoin ==
    /\ pc = "call"
    /\ fn = "spatial_join"
    /\ result' = spatial_join(df, engine)
    /\ pc' = "done"
    /\ UNCHANGED <<fn, df, engine>>
    /\ UNCHANGED mvars

ZNext == AssignTaxiZones \/ SpatialJoin

\* A partition mapped through one of the zone resolvers.
Init ==
    /\ fn \in Resolvers
    /\ df \in Batches
    /\ engine \in EngineOutcomes
    /\ pc = "call"
    /\ result = NoResult
    /\ dir = {}
    /\ mpc = Len(Program)
    /\ globs = NoGlobs
    /\ frames = NoFrames
    /\ tables = NoTables
    /\ raised = "none"

Spec == Init /\ [][ZNext]_vars


\* One run of the taxi main over a raw data directory.
InitMain ==
    /\ dir \in Directories
    /\ mpc = 1
    /\ globs = NoGlobs
    /\ frames = NoFrames
    /\ tables = NoTables
    /\ raised = "none"
    /\ fn = "spatial_join"
    /\ df = << >>
    /\ engine = "ok"
    /\ pc = "idle"
    /\ result = NoResult

SpecMain == InitMain /\ [][MNext]_vars

\* ------------------------------------------------ zone resolvers: claims
\* The values the returned column holds for the record of index i.
ValuesOf(i) ==
    {result.col[k].val :
        k \in {k \in 1..Len(result.col) : result.col[k].idx = i}}

Returned == pc = "done" /\ result.status = "returned"

\* A coordinate that is recorded: a number other than zero.
Recorded(c) == c # NaN /\ c # Num(0)

\* Eligible for (re)assignment: null zone id, both coordinates non-zero.
Eligible(r) == r.locid = NaN /\ Recorded(r.lon) /\ Recorded(r.lat)

\* The record's point lies strictly inside zone z and touches no other zone.
InsideOnly(r, z) ==
    /\ <<r.lon[1], r.lat[1]>> \in shape_df[z].interior
    /\ \A y \in 1..Len(shape_df) :
          y # z => ~intersects(<<r.lon[1], r.lat[1]>>, shape_df[y])

\* The record's point lies in no zone (interior or boundary).
InNoZone(r) ==
    \A z \in 1..Len(shape_df) : ~intersects(<<r.lon[1], r.lat[1]>>, shape_df[z])

ZeroZeroNull(r) == r.lon = Num(0) /\ r.lat = Num(0) /\ r.locid = NaN

\* C1: in the column either resolver returns, every record whose zone id was
\* non-null on input holds that same id, whatever its coordinates and
\* whatever the other records of the batch are.
C1_ExistingIdKept ==
    Returned =>
        \A i \in 1..Len(df) :
            df[i].locid # NaN => ValuesOf(i) = {df[i].locid}

\* C2: when the join completes, every eligible record whose point is strictly
\* inside exactly one zone gets that zone's LocationID, in every batch and
\* from both resolvers.
C2_InsideOneZone ==
    (pc = "done" /\ engine = "ok") =>
        \A i \in 1..Len(df) : \A z \in 1..Len(shape_df) :
            (Eligible(df[i]) /\ InsideOnly(df[i], z)) =>
                /\ result.status = "returned"
                /\ ValuesOf(i) = {Num(shape_df[z].LocationID)}

\* C2 witness: a two-record batch whose second record is eligible, strictly
\* inside zone 4 only, and was resolved to 4 next to a record that keeps
\* another position.
C2_Witness ==
    /\ Returned /\ engine = "ok" /\ Len(df) = 2
    /\ Eligible(df[2]) /\ InsideOnly(df[2], 1)
    /\ df[1].lon = Num(0)
    /\ ValuesOf(2) = {Num(4)}

\* C3 as stated: a record at (0,0) with a null zone id comes back as -999,
\* with or without eligible records in the batch.
C3_ZeroZeroIsSentinel ==
    Returned =>
        \A i \in 1..Len(df) :
            ZeroZeroNull(df[i]) => ValuesOf(i) = {Num(Sentinel)}

\* C3 amended: a record at (0,0) with a null zone id never comes back with a
\* real zone: it is -999 when spatial_join ran its join (some record of the
\* batch has a non-zero coordinate and the join raised nothing) and is left
\* null in every other returned column.
C3_ZeroZeroNeverZone ==
    Returned =>
        \A i \in 1..Len(df) :
            ZeroZeroNull(df[i]) =>
                ValuesOf(i) =
                    {IF /\ fn = "spatial_join"
                        /\ engine = "ok"
                        /\ \E j \in 1..Len(df) :
                              Recorded(df[j].lon) \/ Recorded(df[j].lat)
                     THEN Num(Sentinel) ELSE NaN}

\* C3 witness: spatial_join returned -999 for a (0,0) null record that shares
\* its batch with an eligible record.
C3_Witness ==
    /\ Returned /\ fn = "spatial_join" /\ Len(df) = 2
    /\ ZeroZeroNull(df[1]) /\ Eligible(df[2])
    /\ ValuesOf(1) = {Num(Sentinel)}

\* C4: when the join completes, every eligible record whose point is in no
\* zone comes back as -999 (not as the null of an untouched record).
C4_NoZoneIsSentinel ==
    (pc = "done" /\ engine = "ok") =>
        \A i \in 1..Len(df) :
            (Eligible(df[i]) /\ InNoZone(df[i])) =>
                /\ result.status = "returned"
                /\ ValuesOf(i) = {Num(Sentinel)}

\* C5: when sjoin raises during the join of a batch, the resolver raises
\* nothing and returns the batch's input zone-id column unchanged.
C5_EngineErrorContained ==
    (pc = "done" /\ result.sjoin_called /\ engine = "ValueError") =>
        /\ result.status = "returned"
        /\ result.col = locid_column(df)

\* C10: when no record of the batch is eligible, the resolver returns the
\* input column unchanged and neither reads the shapefile nor calls sjoin.
C10_NoEligibleUntouched ==
    (pc = "done" /\ \A i \in 1..Len(df) : ~Eligible(df[i])) =>
        /\ result.status = "returned"
        /\ result.col = locid_column(df)
        /\ ~result.shape_loaded
        /\ ~result.sjoin_called

\* The positions of the returned column that belong to the record of index i.
EntriesOf(i) == {k \in 1..Len(result.col) : result.col[k].idx = i}

\* The zones, as positions in the shapefile, that the record's point touches.
ZonesOf(r) ==
    {z \in 1..Len(shape_df) : intersects(<<r.lon[1], r.lat[1]>>, shape_df[z])}

\* The LocationID of the first such zone in shapefile order.
FirstZone(r) ==
    shape_df[CHOOSE z \in ZonesOf(r) : \A y \in ZonesOf(r) : z <= y].LocationID

\* C11: when the join completes, the returned column has exactly one entry
\* per input record, and every eligible record whose point lies in more than
\* one zone holds, in its single entry, the id of the first of those zones in
\* shapefile order.
C11_OneEntryFirstZone ==
    (pc = "done" /\ engine = "ok") =>
        /\ result.status = "returned"
        /\ Len(result.col) = Len(df)
        /\ \A i \in 1..Len(df) :
              (Eligible(df[i]) /\ Cardinality(ZonesOf(df[i])) > 1) =>
                  /\ Cardinality(EntriesOf(i)) = 1
                  /\ ValuesOf(i) = {Num(FirstZone(df[i]))}

\* ------------------------------------------------------ taxi main: claims
\* The canonical columns of a trip table: the columns main declares a dtype
\* for and the two parsed datetime columns, without the junk placeholders.
CanonicalColumns ==
    (DOMAIN dtype_list \cup {"pickup_datetime", "dropoff_datetime"})
        \ {"junk1", "junk2"}

\* The step of Program that carries the label.
StepOf(label) == CHOOSE k \in 1..Len(Program) : Program[k] = label

\* main has run the step with that label.
Past(label) == mpc > StepOf(label)

EraNamed(name) == CHOOSE e \in 1..Len(Eras) : Eras[e].name = name

\* The columns of a frame and of every one of its rows are exactly cols.
HasColumns(frame, cols) ==
    /\ ToSet(frame.columns) = cols
    /\ Len(frame.columns) = Cardinality(cols)
    /\ DOMAIN frame.dtypes = cols
    /\ \A k \in 1..Len(frame.rows) : DOMAIN frame.rows[k].cells = cols

\* C6: every era's normalised batch, and each dataset's table appended from
\* them, has exactly the canonical columns: no junk or other extra column,
\* none missing; no projection fails on a missing column.
C6_CanonicalColumnSet ==
    /\ raised = "none"
    /\ \A e \in 1..Len(Eras) :
          Past(Eras[e].name) => HasColumns(frames[e], CanonicalColumns)
    /\ \A ds \in Datasets :
          Past(ds \o "_append") => HasColumns(tables[ds], CanonicalColumns)

\* C6 witness: main has finished; an era that reads junk columns (green2)
\* and one that reads no coordinates (yellow3) each contributed a row.
C6_Witness ==
    /\ mpc = Len(Program)
    /\ Len(frames[2].rows) = 1
    /\ Len(frames[7].rows) = 1
    /\ Len(tables["green"].rows) >= 1
    /\ Len(tables["yellow"].rows) >= 1

\* The default the claim declares for a canonical column absent from an era.
DeclaredDefault(c) ==
    IF c \in {"pickup_location_id", "dropoff_location_id", "trip_type"}
    THEN Num(-999)
    ELSE NaN

\* Every row holds the declared default in each canonical column that the
\* schema of the row's era lacks.
AbsentAreDefault(frame) ==
    \A k \in 1..Len(frame.rows) :
        \A c \in CanonicalColumns \
                 ToSet(Eras[EraNamed(frame.rows[k].era)].schema) :
            /\ c \in DOMAIN frame.rows[k].cells
            /\ frame.rows[k].cells[c] = DeclaredDefault(c)

\* C7: for every era and every canonical column its raw schema lacks, every
\* record of that era holds the declared default, -999 for the identifier
\* columns and NaN for the measurement and monetary columns, in the era's
\* batch and in the final table after the dtype cast.
C7_AbsentColumnsDefault ==
    /\ \A e \in 1..Len(Eras) :
          Past(Eras[e].name) => AbsentAreDefault(frames[e])
    /\ \A ds \in Datasets :
          Past(ds \o "_astype") => AbsentAreDefault(tables[ds])

\* C7 witness: the final tables hold a yellow1 row with trip_type -999 and
\* ehail_fee NaN, and a green4 row with a NaN pickup latitude.
C7_Witness ==
    /\ mpc = Len(Program)
    /\ \E k \in 1..Len(tables["yellow"].rows) :
          /\ tables["yellow"].rows[k].era = "yellow1"
          /\ tables["yellow"].rows[k].cells["trip_type"] = Num(-999)
          /\ tables["yellow"].rows[k].cells["ehail_fee"] = NaN
    /\ \E k \in 1..Len(tables["green"].rows) :
          /\ tables["green"].rows[k].era = "green4"
          /\ tables["green"].rows[k].cells["pickup_latitude"] = NaN

\* The orders in which the era batches of a dataset can be appended.
Orders(ds) ==
    {o \in [1..Len(ErasOf(ds)) -> ToSet(ErasOf(ds))] :
        \A i, j \in 1..Len(ErasOf(ds)) : i # j => o[i] # o[j]}

\* C8: after the era batches are appended and the dtype map is re-applied,
\* every column the map names has the dtype the map declares, and appending
\* the batches in any other order gives the same column order and dtypes.
C8_DtypesCanonical ==
    \A ds \in Datasets :
        Past(ds \o "_astype") =>
            /\ \A c \in ToSet(tables[ds].columns) \cap DOMAIN dtype_list :
                  tables[ds].dtypes[c] = dtype_list[c]
            /\ \A o \in Orders(ds) :
                  /\ union_ok(frames, o)
                  /\ LET t == astype_all(union(frames, o))
                     IN  /\ t.columns = tables[ds].columns
                         /\ t.dtypes = tables[ds].dtypes

\* C8 witness: the yellow table is cast, its trip_type column, int64 in the
\* era batches, is object as the map declares, and two eras gave it rows.
C8_Witness ==
    /\ mpc = Len(Program)
    /\ frames[5].dtypes["trip_type"] = "int64"
    /\ tables["yellow"].dtypes["trip_type"] = "object"
    /\ Len(frames[5].rows) >= 1
    /\ Len(frames[7].rows) >= 1

\* A trip file that no era's glob pattern matches.
Unmatched(f) ==
    \A e \in 1..Len(Eras) : \A k \in 1..Len(Eras[e].globs) :
        ~matches(f, Eras[e].globs[k])

\* C9: when main ends, every file of the directory that matches no era
\* pattern has been surfaced as a SchemaResolutionError.
C9_UnmatchedFileSurfaced ==
    mpc = Len(Program) =>
        \A f \in dir : Unmatched(f) => raised = "SchemaResolutionError"

====
